---- MODULE Spec2Model ----
(***************************************************************************)
(* The agent orchestration loop of agent.js (final snapshot, lines 260-834)*)
(* as a state machine: the bounded context with its compression, the task  *)
(* ledger, the retrying shell executor and the step loop of processInput.  *)
(*                                                                         *)
(* Text is modelled by what the code looks at: an input by its slash,      *)
(* length and keyword tests and by its token estimate, a reply by what it  *)
(* parses to and by the signal substrings it holds, a command output by    *)
(* the substrings the verification heuristic searches.  The timestamps and *)
(* the result text of a task are written and never read; they are left out.*)
(***************************************************************************)
EXTENDS Integers, Sequences, FiniteSets, TLC

\* ---------------------------------------------------------------- bounds
MaxTasks == 2          \* goals submitted in one run of the model
MaxCriteria == 2       \* criteria one task is given
ShortTokens == 10      \* token estimate of a short text
LongTokens == 2800     \* token estimate of a long text
TemplateTokens == 600  \* token estimate of the fixed text of the system prompt

\* The two ceilings the state space grows with are checked scaled down: the
\* source has MAX_MESSAGES = 20 and maxSteps = 10.  Every formula below is
\* stated in terms of the names, not of the values.
MAX_MESSAGES == 4
maxSteps == 3

\* ------------------------------------------------------ program constants
MAX_TOKENS == 6000
maxRetries == 3
BaseDelay == 1000

Null == "null"
NoTask == 0

\* ------------------------------------------------------------ TokenBudget
\* The content of a message: free text (kind "text", estimated at `tokens`)
\* or an instance of the system prompt template with its three interpolated
\* values.
Text(n) ==
    [kind |-> "text", tokens |-> n, activeTask |-> Null, pending |-> 0, completed |-> 0]

Prompt(kind, activeTask, pending, completed) ==
    [kind |-> kind, tokens |-> 0, activeTask |-> activeTask,
     pending |-> pending, completed |-> completed]

\* Token estimate of a task description (the text of the input that made it).
DescriptionTokens(d) ==
    CASE d = "long goal" -> LongTokens
      [] OTHER -> 1

\* A count is printed in decimal: one token per group of up to three digits.
RECURSIVE NumberTokens(_)
NumberTokens(n) == IF n < 1000 THEN 1 ELSE 1 + NumberTokens(n \div 1000)

countTokens(content) ==
    IF content.kind = "text"
    THEN content.tokens
    ELSE TemplateTokens + DescriptionTokens(content.activeTask)
         + NumberTokens(content.pending) + NumberTokens(content.completed)

\* `${message.role}: ${message.content}`: the role label and separator add two.
countMessageTokens(message) == 2 + countTokens(message.content)

RECURSIVE totalTokens(_)
totalTokens(msgs) ==
    IF msgs = <<>> THEN 0
    ELSE countMessageTokens(Head(msgs)) + totalTokens(Tail(msgs))

\* ----------------------------------------------------------- TaskLedger
\* tasks = {current, pending, active, completed}; `current` is set to null
\* and never read or written again.
EmptyLedger == [pending |-> <<>>, active |-> <<>>, completed |-> <<>>]

\* [...tasks.pending, ...tasks.active, ...tasks.completed]
AllTasks(t) == t.pending \o t.active \o t.completed

\* Array.prototype.findIndex on t => t.id === taskId; 0 stands for -1.
findIndex(s, taskId) ==
    IF \E i \in 1..Len(s) : s[i].id = taskId
    THEN CHOOSE i \in 1..Len(s) :
            /\ s[i].id = taskId
            /\ \A j \in 1..(i - 1) : s[j].id # taskId
    ELSE 0

\* Array.prototype.splice(index, 1)
splice(s, index) == SubSeq(s, 1, index - 1) \o SubSeq(s, index + 1, Len(s))

\* The bucket that find() over AllTasks takes the task from, or Null.
BucketOf(t, taskId) ==
    CASE findIndex(t.pending, taskId) # 0 -> "pending"
      [] findIndex(t.active, taskId) # 0 -> "active"
      [] findIndex(t.completed, taskId) # 0 -> "completed"
      [] OTHER -> Null

\* The task object that find() returns (only used where BucketOf # Null).
FindTask(t, taskId) ==
    LET all == AllTasks(t) IN all[findIndex(all, taskId)]

\* An in-place change f of the task object that find() returns.
Mutate(t, taskId, f(_)) ==
    LET b == BucketOf(t, taskId) IN
    IF b = Null THEN t
    ELSE LET i == findIndex(t[b], taskId) IN
         [t EXCEPT ![b] = [@ EXCEPT ![i] = f(@)]]

addTask(t, id, description) ==
    [t EXCEPT !.pending =
        Append(@, [id |-> id, description |-> description,
                   successCriteria |-> <<>>, status |-> "pending"])]

\* Mutant: the criterion is put in front of the list.
addSuccessCriterionInFront(t, taskId, criterion) ==
    LET unshift(task) ==
            [task EXCEPT !.successCriteria =
                << [criterion |-> criterion, verified |-> FALSE] >> \o @]
    IN Mutate(t, taskId, unshift)

addSuccessCriterion(t, taskId, criterion) ==
    LET push(task) ==
            [task EXCEPT !.successCriteria =
                Append(@, [criterion |-> criterion, verified |-> FALSE])]
    IN Mutate(t, taskId, push)

\* Mutant: no test for an empty list of criteria.
verifyTaskCompletionVacuous(t, taskId) ==
    IF BucketOf(t, taskId) = Null THEN FALSE
    ELSE LET task == FindTask(t, taskId) IN
         \A i \in 1..Len(task.successCriteria) :
             task.successCriteria[i].verified = TRUE

verifyTaskCompletion(t, taskId) ==
    IF BucketOf(t, taskId) = Null THEN FALSE
    ELSE LET task == FindTask(t, taskId) IN
         IF Len(task.successCriteria) = 0 THEN FALSE
         ELSE \A i \in 1..Len(task.successCriteria) :
                 task.successCriteria[i].verified = TRUE

\* Mutant: the task is pushed to its new bucket and left in the old one.
updateTaskStatusKeepsOld(t, taskId, status) ==
    IF BucketOf(t, taskId) = Null THEN t
    ELSE LET task == [FindTask(t, taskId) EXCEPT !.status = status] IN
         CASE status = "pending" -> [t EXCEPT !.pending = Append(@, task)]
           [] status = "active" -> [t EXCEPT !.active = Append(@, task)]
           [] OTHER -> [t EXCEPT !.completed = Append(@, task)]

updateTaskStatus(t, taskId, status) ==
    LET category ==
            CASE findIndex(t.pending, taskId) # 0 -> "pending"
              [] findIndex(t.active, taskId) # 0 -> "active"
              [] findIndex(t.completed, taskId) # 0 -> "completed"
              [] OTHER -> Null
    IN
    IF category = Null THEN t
    ELSE LET index == findIndex(t[category], taskId)
             task == [t[category][index] EXCEPT !.status = status]
             removed == [t EXCEPT ![category] = splice(@, index)]
         IN CASE status = "pending" ->
                    [removed EXCEPT !.pending = Append(@, task)]
              [] status = "active" ->
                    [removed EXCEPT !.active = Append(@, task)]
              [] status \in {"completed", "failed"} ->
                    [removed EXCEPT !.completed = Append(@, task)]
              [] OTHER -> removed

\* The task object, or Null.
getActiveTask(t) ==
    IF Len(t.active) > 0 THEN t.active[Len(t.active)].id ELSE NoTask

\* ----------------------------------------------------------- ContextStore
InitialSystemMessage ==
    [role |-> "system", content |-> Prompt("initial", "None", 0, 0)]

\* The template instance updateSystemPrompt writes.
SystemPrompt(t) ==
    Prompt("regenerated",
           IF Len(t.active) > 0 THEN t.active[Len(t.active)].description ELSE "None",
           Len(t.pending), Len(t.completed))

\* messages.findIndex(msg => msg.role === "system"), 0 for -1
findSystem(msgs) ==
    IF \E i \in 1..Len(msgs) : msgs[i].role = "system"
    THEN CHOOSE i \in 1..Len(msgs) :
            /\ msgs[i].role = "system"
            /\ \A j \in 1..(i - 1) : msgs[j].role # "system"
    ELSE 0

updateSystemPrompt(msgs, t) ==
    LET systemMessageIndex == findSystem(msgs) IN
    IF systemMessageIndex # 0
    THEN [msgs EXCEPT ![systemMessageIndex].content = SystemPrompt(t)]
    ELSE msgs

\* Array.prototype.slice(-n) for n > 0: the last n elements, all if fewer.
sliceLast(s, n) ==
    IF Len(s) <= n THEN s ELSE SubSeq(s, Len(s) - n + 1, Len(s))

\* Mutant: the loop discards the newest message.
RECURSIVE removeNewest(_)
removeNewest(msgs) ==
    IF totalTokens(msgs) > MAX_TOKENS /\ Len(msgs) > 2
    THEN removeNewest(SubSeq(msgs, 1, Len(msgs) - 1))
    ELSE msgs

\* while (totalTokens() > MAX_TOKENS && messages.length > 2) messages.splice(1, 1)
RECURSIVE removeOldest(_)
removeOldest(msgs) ==
    IF totalTokens(msgs) > MAX_TOKENS /\ Len(msgs) > 2
    THEN removeOldest(splice(msgs, 2))
    ELSE msgs

\* Mutant: the slice keeps one message too many.
TruncatedKeepsOneMore(msgs) ==
    removeOldest(<<msgs[1]>> \o sliceLast(msgs, MAX_MESSAGES))

\* The messages before the trailing updateSystemPrompt of compressContext.
Truncated(msgs) ==
    removeOldest(<<msgs[1]>> \o sliceLast(msgs, MAX_MESSAGES - 1))

NeedsCompression(msgs) ==
    ~(totalTokens(msgs) <= MAX_TOKENS /\ Len(msgs) <= MAX_MESSAGES)

\* A one-message context comes back as [system, system], two references to
\* one object: the regenerated prompt then shows at both places.
compressContext(msgs, t) ==
    IF ~NeedsCompression(msgs) THEN msgs
    ELSE LET kept == Truncated(msgs) IN
         IF Len(msgs) = 1
         THEN [i \in 1..2 |-> updateSystemPrompt(kept, t)[1]]
         ELSE updateSystemPrompt(kept, t)

\* ------------------------------------------------------------ environment
\* What the user can type at the prompt.  `length` is input.length, `verb`
\* says that the lowercased text includes create, delete, modify or check.
Inputs ==
    { [text |-> "/exit", slash |-> TRUE, length |-> 5, verb |-> FALSE,
       tokens |-> ShortTokens],
      [text |-> "/reset", slash |-> TRUE, length |-> 6, verb |-> FALSE,
       tokens |-> ShortTokens],
      [text |-> "/pwd", slash |-> TRUE, length |-> 4, verb |-> FALSE,
       tokens |-> ShortTokens],
      [text |-> "/tasks", slash |-> TRUE, length |-> 6, verb |-> FALSE,
       tokens |-> ShortTokens],
      [text |-> "ok", slash |-> FALSE, length |-> 2, verb |-> FALSE,
       tokens |-> ShortTokens],
      [text |-> "check", slash |-> FALSE, length |-> 5, verb |-> TRUE,
       tokens |-> ShortTokens],
      [text |-> "fix the bug", slash |-> FALSE, length |-> 11, verb |-> FALSE,
       tokens |-> ShortTokens],
      [text |-> "long goal", slash |-> FALSE, length |-> 9000, verb |-> FALSE,
       tokens |-> LongTokens] }

\* The commands, a goal and a short answer.
ShortInputs == { input \in Inputs : input.length <= 6 }

\* The record JSON.parse returns: the action tag and the fields the branches
\* of processInput read for control.  `missing` says that the field handed to
\* the collaborator (command of run, file of patch) is not in the record.
Record(action, taskId, criteria, criterionIndex) ==
    [action |-> action, taskId |-> taskId, criteria |-> criteria,
     criterionIndex |-> criterionIndex, missing |-> FALSE]

\* The same record without that field: { "action": "run" }.
Incomplete(record) == [record EXCEPT !.missing = TRUE]

\* parsed = null
NoRecord == Record(Null, NoTask, <<>>, 0)

\* The criteria one define_criteria record lists.
CriteriaLists == { [i \in 1..MaxCriteria |-> IF i = 1 THEN "c1" ELSE "c2"] }

Records ==
    { Record(a, NoTask, <<>>, 0) : a \in {"run", "read", "patch", "commit"} }
    \cup { Record("define_criteria", id, c, 0) : id \in 1..MaxTasks, c \in CriteriaLists }
    \cup { Record("verify", id, <<>>, i) : id \in 1..MaxTasks, i \in 0..MaxCriteria }
    \cup { Incomplete(Record(a, NoTask, <<>>, 0)) : a \in {"run", "patch"} }

\* A completion: prose, a bare record or a record in a fenced block.  For prose,
\* `complete` says that the lowercased text includes "task complete",
\* "finished", "done" or "completed", `failure` that it includes "failed",
\* "error" or "cannot".
Reply(form, tokens, complete, failure, record) ==
    [form |-> form, tokens |-> tokens, complete |-> complete, failure |-> failure,
     record |-> record]

Replies ==
    { Reply("prose", ShortTokens, c, f, NoRecord) : c \in BOOLEAN, f \in BOOLEAN }
    \cup { Reply("json", ShortTokens, FALSE, FALSE, r) : r \in Records }
    \cup { Reply("fenced", ShortTokens, FALSE, FALSE, Record("run", NoTask, <<>>, 0)) }

\* reply.match(/```(?:json)?\s*([\s\S]*?)\s*```/), then JSON.parse in try/catch:
\* NoRecord (null) when the text is not a record.
parse(reply) ==
    LET jsonText == IF reply.form = "fenced" THEN "inner" ELSE reply.form IN
    IF jsonText \in {"inner", "json"} THEN reply.record ELSE NoRecord

\* One exit of the child process: err, and what the text handed on (stdout, or
\* stderr || err.message) holds.
Outcomes ==
    { [err |-> e, tokens |-> ShortTokens, error |-> x, notFound |-> FALSE] :
        e \in BOOLEAN, x \in BOOLEAN }
    \cup { [err |-> FALSE, tokens |-> ShortTokens, error |-> FALSE, notFound |-> TRUE],
           [err |-> TRUE, tokens |-> LongTokens, error |-> FALSE, notFound |-> FALSE] }

ShortOutcomes == { outcome \in Outcomes : outcome.tokens = ShortTokens }

\* Completions that leave the criteria of every task alone.
PlainReplies ==
    { reply \in Replies : reply.record.action \notin {"define_criteria", "verify"} }

Answers == {"y", "n", "yes"}

\* ------------------------------------------------------------------ state
VARIABLES
    messages,       \* the context
    tasks,          \* the ledger
    AUTO_APPROVE,   \* process.env.AUTO_APPROVE === "true"
    created,        \* tasks created so far (the source of fresh ids)
    pc,             \* where the single control flow is suspended
    currentTask,    \* processInput's currentTask, as the task's id
    steps,          \* processInput's steps
    parsed,         \* the record whose action is being carried out
    retryCount,     \* runCommand's retryCount
    requests,       \* completion requests made by the submission in progress
    execCalls,      \* exec invocations made by the runCommand in progress
    delays,         \* setTimeout delays set by the runCommand in progress
    result,         \* what runCommand resolved with in the last step taken
    effect,         \* what the last step taken did to the world outside
    answer,         \* what the user answered to the confirmation of this step
    halted,         \* how the last submission left its loop
    compressed,     \* what compressContext did in the last step taken
    live            \* the ids of the tasks created since the last /reset

vars ==
    << messages, tasks, AUTO_APPROVE, created, pc, currentTask, steps, parsed,
       retryCount, requests, execCalls, delays, result, effect, answer, halted,
       compressed, live >>

\* No runCommand resolved.
NoResult == [action |-> Null, success |-> FALSE, calls |-> 0, delays |-> <<>>]

\* compressContext was not called.
NotCompressed == [context |-> <<>>, dropped |-> 0]

\* compressContext called on msgs under ledger t: the context it leaves and
\* the number of messages it discarded.
Compression(msgs, t) ==
    LET kept == compressContext(msgs, t) IN
    [context |-> kept, dropped |-> Len(msgs) - Len(kept)]

\* The loop is running, or no submission was made.
NoHalt == [by |-> Null, task |-> NoTask, left |-> Null, demoted |-> FALSE]

Init ==
    /\ messages = << InitialSystemMessage >>
    /\ tasks = EmptyLedger
    /\ AUTO_APPROVE \in BOOLEAN
    /\ created = 0
    /\ pc = "prompt"
    /\ currentTask = NoTask
    /\ steps = 0
    /\ parsed = NoRecord
    /\ retryCount = 0
    /\ requests = 0
    /\ execCalls = 0
    /\ delays = <<>>
    /\ result = NoResult
    /\ effect = "none"
    /\ answer = Null
    /\ halted = NoHalt
    /\ compressed = NotCompressed
    /\ live = {}

Message(role, content) == [role |-> role, content |-> content]

\* ------------------------------------------------------ step loop plumbing
\* `break`, or the loop test failing, and everything after the loop: the
\* budget demotion and the last updateSystemPrompt.  Control is back at the
\* prompt; the locals of processInput are gone.  halted keeps how the loop
\* was left, for which task, and the status the loop left that task with,
\* before the budget test of line 797.
Halt(msgs, t, cur, s, by) ==
    LET exhausted == s >= maxSteps
        after == IF exhausted /\ cur # NoTask
                 THEN updateTaskStatus(t, cur, "pending")
                 ELSE t
    IN /\ messages' = updateSystemPrompt(msgs, after)
       /\ tasks' = after
       /\ currentTask' = NoTask
       /\ steps' = 0
       /\ requests' = 0
       /\ halted' = [by |-> by, task |-> cur,
                      left |-> IF cur # NoTask /\ BucketOf(t, cur) # Null
                               THEN FindTask(t, cur).status ELSE Null,
                      demoted |-> exhausted /\ cur # NoTask]
       /\ pc' = "prompt"

\* Mutant: the loop test lets one step more through.
ContinueOneMore(msgs, t, cur, s, rq) ==
    IF s <= maxSteps
    THEN /\ messages' = msgs
         /\ tasks' = t
         /\ currentTask' = cur
         /\ steps' = s + 1
         /\ requests' = rq + 1
         /\ halted' = NoHalt
         /\ pc' = "request"
    ELSE Halt(msgs, t, cur, s, "budget")

\* `continue` and the loop test of while (steps < maxSteps): the next
\* completion request goes out, or the loop is left with the budget used up.
Continue(msgs, t, cur, s, rq) ==
    IF s < maxSteps
    THEN /\ messages' = msgs
         /\ tasks' = t
         /\ currentTask' = cur
         /\ steps' = s + 1
         /\ requests' = rq + 1
         /\ halted' = NoHalt
         /\ pc' = "request"
    ELSE Halt(msgs, t, cur, s, "budget")

\* The tail shared by the branches that end in
\*   compressContext(); updateSystemPrompt(); continue;
CompressAndContinue(msgs, t) ==
    LET kept == compressContext(msgs, t) IN
    /\ compressed' = Compression(msgs, t)
    /\ Continue(updateSystemPrompt(kept, t), t, currentTask, steps, requests)

\* The process is gone, by process.exit or by a rejection nothing handles, and
\* with it the context and the ledger, which are kept in memory only.
Terminated(how, by) ==
    /\ pc' = how
    /\ effect' = by
    /\ messages' = <<>>
    /\ tasks' = EmptyLedger
    /\ currentTask' = NoTask
    /\ steps' = 0
    /\ parsed' = NoRecord
    /\ retryCount' = 0
    /\ requests' = 0
    /\ execCalls' = 0
    /\ delays' = <<>>
    /\ result' = NoResult
    /\ answer' = Null
    /\ halted' = NoHalt
    /\ compressed' = NotCompressed
    /\ live' = {}
    /\ UNCHANGED << AUTO_APPROVE, created >>

\* --------------------------------------------------------- slash commands
Exit ==
    /\ pc = "prompt"
    /\ Terminated("exited", "none")

\* Mutant: the reset keeps the first message after the system message.
ResetContextKeepsTwo(msgs) ==
    updateSystemPrompt(SubSeq(msgs, 1, IF Len(msgs) > 1 THEN 2 ELSE 1), EmptyLedger)

\* What /reset leaves of the context and of the ledger.
ResetContext(msgs) == updateSystemPrompt(<< msgs[1] >>, EmptyLedger)

Reset ==
    /\ pc = "prompt"
    /\ messages' = ResetContext(messages)
    /\ tasks' = EmptyLedger
    /\ currentTask' = NoTask
    /\ parsed' = NoRecord
    /\ result' = NoResult
    /\ effect' = "reset"
    /\ answer' = Null
    /\ halted' = NoHalt
    /\ compressed' = NotCompressed
    /\ live' = {}
    /\ UNCHANGED << AUTO_APPROVE, created, pc, steps, retryCount, requests,
                    execCalls, delays >>

\* /pwd and /tasks print and return.
Show(input) ==
    /\ pc = "prompt"
    /\ input.text \in {"/pwd", "/tasks"}
    /\ UNCHANGED vars

\* ------------------------------------------------------------- submission
isNewTask(input) ==
    ~input.slash /\ (input.length > 5 \/ input.verb)

Submit(input) ==
    /\ pc = "prompt"
    /\ input.text \notin {"/exit", "/reset", "/pwd", "/tasks"}
    /\ isNewTask(input) => created < MaxTasks
    /\ LET id == created + 1
           t == IF isNewTask(input)
                THEN updateTaskStatus(addTask(tasks, id, input.text), id, "active")
                ELSE tasks
           cur == IF isNewTask(input) THEN id ELSE getActiveTask(tasks)
           pushed == updateSystemPrompt(
                         Append(messages, Message("user", Text(input.tokens))), t)
       IN /\ created' = IF isNewTask(input) THEN id ELSE created
          /\ live' = IF isNewTask(input) THEN live \cup {id} ELSE live
          /\ compressed' = Compression(pushed, t)
          /\ Continue(compressContext(pushed, t), t, cur, 0, 0)
    /\ parsed' = NoRecord
    /\ result' = NoResult
    /\ effect' = "request"
    /\ answer' = Null
    /\ UNCHANGED << AUTO_APPROVE, retryCount, execCalls, delays >>

\* ------------------------------------------------------------- one reply
\* The completion arrives: the raw reply is appended whatever it parses to.
Pushed(reply) == Append(messages, Message("assistant", Text(reply.tokens)))

\* What the last step called, given where it left the control flow.
EffectOfContinue == IF pc' = "request" THEN "request" ELSE "none"

\* runCommand(parsed.command): attempt() calls exec for the first time.  exec
\* throws on a command that is not a string; the promise of runCommand rejects
\* and nothing catches.
StartCommand(msgs, record, reply) ==
    IF record.missing THEN Terminated("crashed", "invalid") ELSE
    /\ messages' = msgs
    /\ parsed' = record
    /\ answer' = reply
    /\ retryCount' = 0
    /\ execCalls' = 1
    /\ delays' = <<>>
    /\ result' = NoResult
    /\ effect' = "exec"
    /\ compressed' = NotCompressed
    /\ pc' = "exec"
    /\ UNCHANGED << tasks, AUTO_APPROVE, created, currentTask, steps, requests,
                    halted, live >>

\* ask(...) is pending: nothing but the raw reply has been recorded.
AskConfirmation(msgs, record) ==
    /\ messages' = msgs
    /\ parsed' = record
    /\ result' = NoResult
    /\ effect' = "ask"
    /\ answer' = Null
    /\ compressed' = NotCompressed
    /\ pc' = "confirm"
    /\ UNCHANGED << tasks, AUTO_APPROVE, created, currentTask, steps, retryCount,
                    requests, execCalls, delays, halted, live >>

\* applyPatch: fs.writeFileSync writes the file or throws; nothing in
\* processInput or loop catches, so a throw ends the input loop.  It throws
\* before it touches anything when parsed.file is not there.
ApplyPatch(msgs, reply) ==
    \E written \in BOOLEAN :
        IF written
        THEN /\ effect' = "write"
             /\ parsed' = NoRecord
             /\ answer' = reply
             /\ result' = NoResult
             /\ CompressAndContinue(
                    Append(msgs, Message("assistant", Text(ShortTokens))), tasks)
             /\ UNCHANGED << AUTO_APPROVE, created, retryCount, execCalls, delays,
                             live >>
        ELSE Terminated("crashed", "write")

\* Mutant: the completion signal is not looked at.
fallbackNever(reply, t, cur) == FALSE

\* Mutant: the completion signal counts whatever criteria the task has.
fallbackIgnoresCriteria(reply, t, cur) ==
    reply.complete /\ cur # NoTask

\* The completion signal counts only for a task without criteria.
fallbackCompletes(reply, t, cur) ==
    /\ reply.complete
    /\ cur # NoTask
    /\ Len(FindTask(t, cur).successCriteria) = 0

ReplyProse(reply) ==
    /\ pc = "request"
    /\ parse(reply) = NoRecord
    /\ LET kept == compressContext(Pushed(reply), tasks)
           msgs == updateSystemPrompt(kept, tasks)
           cur == currentTask
           verified == cur # NoTask /\ verifyTaskCompletion(tasks, cur)
           fallback == fallbackCompletes(reply, tasks, cur)
       IN /\ compressed' = Compression(Pushed(reply), tasks)
          /\ IF verified \/ fallback
             THEN Halt(msgs, updateTaskStatus(tasks, cur, "completed"), cur, steps,
                       IF verified THEN "verified" ELSE "fallback")
             ELSE Continue(msgs,
                           IF reply.failure /\ cur # NoTask
                           THEN updateTaskStatus(tasks, cur, "failed")
                           ELSE tasks,
                           cur, steps, requests)
    /\ parsed' = NoRecord
    /\ result' = NoResult
    /\ effect' = EffectOfContinue
    /\ answer' = Null
    /\ UNCHANGED << AUTO_APPROVE, created, retryCount, execCalls, delays, live >>

\* parsed.criteria.forEach(criterion => addSuccessCriterion(id, criterion))
RECURSIVE addCriteria(_, _, _)
addCriteria(t, taskId, criteria) ==
    IF criteria = <<>> THEN t
    ELSE addCriteria(addSuccessCriterion(t, taskId, Head(criteria)), taskId,
                     Tail(criteria))

ReplyDefineCriteria(reply) ==
    /\ pc = "request"
    /\ parse(reply).action = "define_criteria"
    /\ LET record == parse(reply)
           mine == currentTask # NoTask /\ record.taskId = currentTask
       IN /\ mine => Len(FindTask(tasks, currentTask).successCriteria)
                       + Len(record.criteria) <= MaxCriteria
          /\ IF mine
             THEN CompressAndContinue(
                      Append(Pushed(reply), Message("assistant", Text(ShortTokens))),
                      addCriteria(tasks, currentTask, record.criteria))
             ELSE CompressAndContinue(Pushed(reply), tasks)
    /\ parsed' = NoRecord
    /\ result' = NoResult
    /\ effect' = EffectOfContinue
    /\ answer' = Null
    /\ UNCHANGED << AUTO_APPROVE, created, retryCount, execCalls, delays, live >>

ReplyVerify(reply) ==
    /\ pc = "request"
    /\ parse(reply).action = "verify"
    /\ LET record == parse(reply) IN
       IF currentTask # NoTask /\ record.taskId = currentTask
       THEN StartCommand(Pushed(reply), record, Null)
       ELSE /\ CompressAndContinue(Pushed(reply), tasks)
            /\ parsed' = NoRecord
            /\ result' = NoResult
            /\ effect' = EffectOfContinue
            /\ answer' = Null
            /\ UNCHANGED << AUTO_APPROVE, created, retryCount, execCalls, delays,
                            live >>

ReplyRun(reply) ==
    /\ pc = "request"
    /\ parse(reply).action = "run"
    /\ IF ~AUTO_APPROVE
       THEN AskConfirmation(Pushed(reply), parse(reply))
       ELSE StartCommand(Pushed(reply), parse(reply), Null)

ReplyPatch(reply) ==
    /\ pc = "request"
    /\ parse(reply).action = "patch"
    /\ IF ~AUTO_APPROVE
       THEN AskConfirmation(Pushed(reply), parse(reply))
       ELSE IF parse(reply).missing
            THEN Terminated("crashed", "invalid")
            ELSE ApplyPatch(Pushed(reply), Null)

\* commitChanges: git.add and git.commit resolve, or one of them rejects and,
\* uncaught, ends the input loop.
ReplyCommit(reply) ==
    /\ pc = "request"
    /\ parse(reply).action = "commit"
    /\ \E committed \in BOOLEAN :
        IF committed
        THEN /\ effect' = "commit"
             /\ parsed' = NoRecord
             /\ result' = NoResult
             /\ answer' = Null
             /\ CompressAndContinue(
                    Append(Pushed(reply), Message("assistant", Text(ShortTokens))),
                    tasks)
             /\ UNCHANGED << AUTO_APPROVE, created, retryCount, execCalls, delays,
                             live >>
        ELSE Terminated("crashed", "commit")

\* Any other tag, "read" among them, falls through every branch to `break`.
ReplyUnknown(reply) ==
    /\ pc = "request"
    /\ parse(reply) # NoRecord
    /\ parse(reply).action \notin {"define_criteria", "verify", "run", "patch", "commit"}
    /\ Halt(Pushed(reply), tasks, currentTask, steps, "unknown")
    /\ parsed' = NoRecord
    /\ result' = NoResult
    /\ effect' = "none"
    /\ answer' = Null
    /\ compressed' = NotCompressed
    /\ UNCHANGED << AUTO_APPROVE, created, retryCount, execCalls, delays, live >>

\* ----------------------------------------------------------- confirmation
\* Mutant: only "n" declines.
declinedOnlyByN(reply) == reply = "n"

\* if (confirm !== "y")
declined(reply) == reply # "y"

Confirm(reply) ==
    /\ pc = "confirm"
    /\ IF declined(reply)
       THEN /\ answer' = reply
            /\ Halt(messages,
                    IF currentTask # NoTask
                    THEN updateTaskStatus(tasks, currentTask, "pending")
                    ELSE tasks,
                    currentTask, steps, "declined")
            /\ result' = NoResult
            /\ effect' = "none"
            /\ compressed' = NotCompressed
            /\ UNCHANGED << AUTO_APPROVE, created, parsed, retryCount, execCalls,
                            delays, live >>
       ELSE IF parsed.action = "run"
            THEN StartCommand(messages, parsed, reply)
            ELSE IF parsed.missing
                 THEN Terminated("crashed", "invalid")
                 ELSE ApplyPatch(messages, reply)

\* ------------------------------------------------------------- runCommand
\* The promise resolves and processInput goes on behind its await.
\* After `run` (lines 731-754):
AfterRun(res) ==
    CompressAndContinue(
        Append(messages, Message("assistant", Text(res.tokens))),
        IF ~res.success /\ currentTask # NoTask
        THEN updateTaskStatus(tasks, currentTask, "failed")
        ELSE tasks)

\* currentTask.successCriteria[parsed.criterionIndex].verified = true, when
\* that element exists (criterionIndex counts from 0).
markVerified(t, taskId, criterionIndex) ==
    LET mark(task) ==
            IF criterionIndex + 1 \in 1..Len(task.successCriteria)
            THEN [task EXCEPT !.successCriteria[criterionIndex + 1].verified = TRUE]
            ELSE task
    IN Mutate(t, taskId, mark)

\* Mutant: the pass check does not look at the output.
verificationPassedOnExit(res) == res.success

verificationPassed(res) == res.success /\ ~res.error /\ ~res.notFound

\* Mutant: a verification that completes the criteria does not leave the loop.
AfterVerifyGoesOn(res) ==
    IF verificationPassed(res)
    THEN CompressAndContinue(
             messages, markVerified(tasks, currentTask, parsed.criterionIndex))
    ELSE CompressAndContinue(
             Append(messages, Message("assistant", Text(res.tokens))), tasks)

\* After `verify` (lines 685-715):
AfterVerify(res) ==
    IF verificationPassed(res)
    THEN LET t == markVerified(tasks, currentTask, parsed.criterionIndex) IN
         IF verifyTaskCompletion(t, currentTask)
         THEN /\ Halt(messages, updateTaskStatus(t, currentTask, "completed"),
                      currentTask, steps, "verified")
              /\ compressed' = NotCompressed
         ELSE CompressAndContinue(messages, t)
    ELSE CompressAndContinue(
             Append(messages, Message("assistant", Text(res.tokens))), tasks)

Resolve(res) ==
    /\ result' = [action |-> parsed.action, success |-> res.success,
                  calls |-> execCalls, delays |-> delays]
    /\ IF parsed.action = "run" THEN AfterRun(res) ELSE AfterVerify(res)
    /\ effect' = EffectOfContinue
    /\ parsed' = NoRecord
    /\ retryCount' = 0
    /\ execCalls' = 0
    /\ delays' = <<>>
    /\ UNCHANGED << AUTO_APPROVE, created, answer, live >>

\* Mutant: the first failure is final.
shouldRetryNever(count) == FALSE

\* Mutant: maxRetries bounds the calls of exec, not the retries.
shouldRetryCountsCalls(count) == count + 1 < maxRetries

\* if (retryCount < maxRetries)
shouldRetry(count) == count < maxRetries

\* The callback of exec.  On a retry, setTimeout(() => attempt(retryCount + 1),
\* 1000 * (retryCount + 1)): nothing else is pending, so the timer fires next
\* and attempt calls exec again.
ExecCallback(outcome) ==
    /\ pc = "exec"
    /\ IF outcome.err
       THEN IF shouldRetry(retryCount)
            THEN /\ delays' = Append(delays, BaseDelay * (retryCount + 1))
                 /\ retryCount' = retryCount + 1
                 /\ execCalls' = execCalls + 1
                 /\ effect' = "exec"
                 /\ pc' = "exec"
                 /\ UNCHANGED << messages, tasks, AUTO_APPROVE, created, currentTask,
                                 steps, parsed, requests, result, answer, halted,
                                 compressed, live >>
            ELSE Resolve([success |-> FALSE, tokens |-> outcome.tokens,
                          error |-> outcome.error, notFound |-> outcome.notFound])
       ELSE Resolve([success |-> TRUE, tokens |-> outcome.tokens,
                     error |-> outcome.error, notFound |-> outcome.notFound])

\* ---------------------------------------------------------- specification
\* Nothing in processInput reads the context: the ledger and the step loop go
\* the same way whatever the texts cost.  Spec follows them with every text
\* short; SpecContext follows the context with long texts among the short
\* ones, under completions that define and verify no criteria.
Commands ==
    \/ Exit
    \/ Reset
    \/ \E input \in Inputs : Show(input)

Next ==
    \/ Commands
    \/ \E input \in ShortInputs : Submit(input)
    \/ \E reply \in Replies : ReplyProse(reply)
    \/ \E reply \in Replies : ReplyDefineCriteria(reply)
    \/ \E reply \in Replies : ReplyVerify(reply)
    \/ \E reply \in Replies : ReplyRun(reply)
    \/ \E reply \in Replies : ReplyPatch(reply)
    \/ \E reply \in Replies : ReplyCommit(reply)
    \/ \E reply \in Replies : ReplyUnknown(reply)
    \/ \E reply \in Answers : Confirm(reply)
    \/ \E outcome \in ShortOutcomes : ExecCallback(outcome)

Spec == Init /\ [][Next]_vars

NextContext ==
    \/ Commands
    \/ \E input \in Inputs : Submit(input)
    \/ \E reply \in PlainReplies : ReplyProse(reply)
    \/ \E reply \in PlainReplies : ReplyRun(reply)
    \/ \E reply \in PlainReplies : ReplyPatch(reply)
    \/ \E reply \in PlainReplies : ReplyCommit(reply)
    \/ \E reply \in PlainReplies : ReplyUnknown(reply)
    \/ \E reply \in Answers : Confirm(reply)
    \/ \E outcome \in Outcomes : ExecCallback(outcome)

SpecContext == Init /\ [][NextContext]_vars

\* ============================================================= properties
Buckets == {"pending", "active", "completed"}

\* The places of the ledger that hold the task with this id.
Positions(t, id) ==
    { pos \in Buckets \X (1..MaxTasks) :
        pos[2] <= Len(t[pos[1]]) /\ t[pos[1]][pos[2]].id = id }

\* C1: whenever compressContext has run, the context it leaves has at most
\* MAX_MESSAGES messages and its first message is the system message.
CompressionInvariant ==
    compressed.context # <<>> =>
        /\ Len(compressed.context) <= MAX_MESSAGES
        /\ compressed.context[1].role = "system"
        /\ compressed.context[1].content.kind # "text"

\* A compression that discarded messages and left a full context.
CompressionWitness ==
    /\ compressed.dropped > 0
    /\ Len(compressed.context) = MAX_MESSAGES

\* C2: whenever compressContext has run, the context it leaves is within
\* MAX_TOKENS or is down to two messages.
TokenCeiling ==
    compressed.context # <<>> =>
        \/ totalTokens(compressed.context) <= MAX_TOKENS
        \/ Len(compressed.context) = 2

\* C3: no step changes the criteria of a task that is completed or failed.
FinishedCriteriaFrozen ==
    [][\A id \in live :
          ( /\ BucketOf(tasks, id) # Null
            /\ FindTask(tasks, id).status \in {"completed", "failed"}
            /\ BucketOf(tasks', id) # Null )
          => FindTask(tasks', id).successCriteria = FindTask(tasks, id).successCriteria
      ]_vars

\* C4: every task created since the last /reset is at exactly one place of
\* the ledger, in the bucket of its status.
OneBucketPerTask ==
    \A id \in live :
        /\ Cardinality(Positions(tasks, id)) = 1
        /\ \A pos \in Positions(tasks, id) :
              LET status == tasks[pos[1]][pos[2]].status IN
              \/ pos[1] = "pending" /\ status = "pending"
              \/ pos[1] = "active" /\ status = "active"
              \/ pos[1] = "completed" /\ status \in {"completed", "failed"}

\* Two tasks that updateTaskStatus has moved to different buckets.
OneBucketWitness ==
    /\ Cardinality(live) = 2
    /\ Len(tasks.pending) = 1
    /\ Len(tasks.completed) = 1
    /\ tasks.completed[1].status = "failed"

\* C5: a completed task has no unverified criterion.
CompletedMeansVerified ==
    \A b \in Buckets : \A i \in 1..Len(tasks[b]) :
        tasks[b][i].status = "completed" =>
            \A k \in 1..Len(tasks[b][i].successCriteria) :
                tasks[b][i].successCriteria[k].verified

\* A task completed by the verification of each of its criteria.
CompletedWitness ==
    \E i \in 1..Len(tasks.completed) :
        /\ tasks.completed[i].status = "completed"
        /\ Len(tasks.completed[i].successCriteria) = MaxCriteria

\* C6: verifyTaskCompletion holds of an id exactly when the ledger has a task
\* with that id, with at least one criterion and with every criterion verified.
VerifyTaskCompletionMeaning ==
    \A id \in 1..(MaxTasks + 1) :
        verifyTaskCompletion(tasks, id) <=>
            \E b \in Buckets : \E i \in 1..Len(tasks[b]) :
                /\ tasks[b][i].id = id
                /\ Len(tasks[b][i].successCriteria) >= 1
                /\ \A k \in 1..Len(tasks[b][i].successCriteria) :
                      tasks[b][i].successCriteria[k].verified = TRUE

\* One task it holds of, and one task without criteria, of which it does not.
VerifyTaskCompletionWitness ==
    /\ \E id \in live : verifyTaskCompletion(tasks, id)
    /\ \E id \in live :
          /\ BucketOf(tasks, id) # Null
          /\ Len(FindTask(tasks, id).successCriteria) = 0
          /\ ~verifyTaskCompletion(tasks, id)

\* C7: /reset leaves the system message alone in the context and an empty
\* ledger, and a second /reset leaves them as they are.
ResetIdempotent ==
    effect = "reset" =>
        /\ Len(messages) = 1
        /\ messages[1].role = "system"
        /\ tasks = EmptyLedger
        /\ ResetContext(messages) = messages

\* A /reset after every task of the run was created.
ResetWitness ==
    effect = "reset" /\ created = MaxTasks

\* C8 as stated: a Run action whose executions all fail has called exec
\* maxRetries times, the k-th retry after k times the base delay.
FailsAfterMaxRetriesCalls ==
    (result.action = "run" /\ ~result.success) =>
        /\ result.calls = maxRetries
        /\ \A k \in 1..Len(result.delays) : result.delays[k] = k * BaseDelay

\* C8 amended: it has called exec maxRetries + 1 times, once and then once per
\* retry, the k-th retry after k times the base delay.
FailsAfterMaxRetriesRetries ==
    /\ (result.action = "run" /\ ~result.success) =>
          /\ result.calls = maxRetries + 1
          /\ result.delays = [k \in 1..maxRetries |-> k * BaseDelay]
    /\ pc = "exec" =>
          /\ Len(delays) = execCalls - 1
          /\ \A k \in 1..Len(delays) : delays[k] = k * BaseDelay

\* A Run action that failed for good.
RunFailureWitness ==
    result.action = "run" /\ ~result.success /\ result.calls > 0

\* C9: the step in which a Run action fails for good leaves the status of the
\* submission's task as it was.
RunFailureKeepsStatus ==
    [][( /\ pc = "exec"
         /\ parsed.action = "run"
         /\ currentTask # NoTask
         /\ pc' = "request"
         /\ ~result'.success )
       => FindTask(tasks', currentTask).status = FindTask(tasks, currentTask).status
      ]_vars

\* C10: an answer other than "y" runs no command and writes no file, leaves the
\* submission's task pending and returns control without another request.
DeclineHalts ==
    answer \notin {Null, "y"} =>
        /\ ~AUTO_APPROVE
        /\ pc = "prompt"
        /\ effect = "none"
        /\ requests = 0
        /\ halted.by = "declined"
        /\ parsed.action \in {"run", "patch"}
        /\ halted.task # NoTask =>
              /\ BucketOf(tasks, halted.task) = "pending"
              /\ FindTask(tasks, halted.task).status = "pending"

\* A declined patch of a submission that has a task.
DeclineWitness ==
    /\ answer = "n"
    /\ parsed.action = "patch"
    /\ halted.task # NoTask
    /\ BucketOf(tasks, halted.task) = "pending"

\* C11: with auto-approval disabled, the shell executor is running only behind
\* a confirmation answered "y" in the same step, for Run and for Verify alike.
ExecBehindConfirmation ==
    (pc = "exec" /\ ~AUTO_APPROVE) => answer = "y"

\* The steps of a submission in progress: a completion arrives, the user
\* answers a confirmation, exec calls back.
InLoop ==
    \/ \E reply \in Replies : ReplyProse(reply)
    \/ \E reply \in Replies : ReplyDefineCriteria(reply)
    \/ \E reply \in Replies : ReplyVerify(reply)
    \/ \E reply \in Replies : ReplyRun(reply)
    \/ \E reply \in Replies : ReplyPatch(reply)
    \/ \E reply \in Replies : ReplyCommit(reply)
    \/ \E reply \in Replies : ReplyUnknown(reply)
    \/ \E reply \in Answers : Confirm(reply)
    \/ \E outcome \in ShortOutcomes : ExecCallback(outcome)

\* Every call a submission waits for comes back: the completion request, the
\* confirmation, exec.  This is WF_vars(InLoop) written out, InLoop being
\* enabled exactly while processInput is suspended in its loop.
CallsComeBack ==
    \/ []<>(pc \notin {"request", "confirm", "exec"})
    \/ []<><<InLoop>>_vars

SpecReturning == Spec /\ CallsComeBack

\* What the step counter guarantees in every state.
WithinBudget ==
    /\ requests <= maxSteps
    /\ steps <= maxSteps
    /\ pc \in {"request", "confirm", "exec"} => requests = steps /\ steps >= 1
    /\ halted.by = "budget" =>
          /\ pc = "prompt"
          /\ requests = 0
          /\ halted.demoted = (halted.task # NoTask)
          /\ halted.task # NoTask =>
                /\ BucketOf(tasks, halted.task) = "pending"
                /\ FindTask(tasks, halted.task).status = "pending"

\* C12: a submission makes at most maxSteps completion requests, one per step,
\* and then gives control back to the prompt, unless a collaborator threw
\* instead of returning; when the loop ends with the budget used up and no
\* other halt, the submission's task is pending, in the pending bucket.
StepBudget ==
    /\ []WithinBudget
    /\ (pc = "request") ~> (pc \in {"prompt", "crashed"})

\* The budget ran out on a task that the loop had left failed.
StepBudgetWitness ==
    /\ halted.by = "budget"
    /\ halted.left = "failed"
    /\ BucketOf(tasks, halted.task) = "pending"

\* C13: when runCommand resolves for a verify action and the submission's task
\* then has every criterion verified, the loop is left at once: the task has
\* been made completed, no completion request follows, and no reply text was
\* consulted.
VerifiedCompletes ==
    [][( /\ pc = "exec"
         /\ parsed.action = "verify"
         /\ pc' # "exec"
         /\ verifyTaskCompletion(tasks', currentTask) )
       => /\ pc' = "prompt"
          /\ halted'.by = "verified"
          /\ halted'.task = currentTask
          /\ halted'.left = "completed"
          /\ effect' # "request"
          /\ requests' = 0
      ]_vars

\* A task completed by its last verification, before the budget ran out.
VerifiedCompletesWitness ==
    /\ result.action = "verify"
    /\ result.success
    /\ halted.by = "verified"
    /\ ~halted.demoted
    /\ BucketOf(tasks, halted.task) = "completed"
    /\ FindTask(tasks, halted.task).status = "completed"
    /\ Len(FindTask(tasks, halted.task).successCriteria) = MaxCriteria

\* The status the step loop has left the task with: at the break if the loop
\* was left, in the ledger if it goes on.
StatusLeft(pcNow, haltedNow, t, taskId) ==
    IF pcNow = "prompt" THEN haltedNow.left ELSE FindTask(t, taskId).status

\* C14: a prose reply with a completion signal completes a task that has no
\* criteria and leaves the loop; it leaves the status of a task with
\* unverified criteria as it was, unless the reply holds a failure signal too.
CompletionSignal ==
    [][\A reply \in Replies :
          (ReplyProse(reply) /\ reply.complete /\ currentTask # NoTask) =>
              LET task == FindTask(tasks, currentTask) IN
              /\ Len(task.successCriteria) = 0 =>
                    /\ pc' = "prompt"
                    /\ halted'.by = "fallback"
                    /\ halted'.task = currentTask
                    /\ halted'.left = "completed"
                    /\ effect' # "request"
              /\ ( /\ Len(task.successCriteria) > 0
                   /\ ~verifyTaskCompletion(tasks, currentTask)
                   /\ ~reply.failure ) =>
                    /\ StatusLeft(pc', halted', tasks', currentTask) = task.status
                    /\ halted'.by \in {Null, "budget"}
      ]_vars

\* An active task without criteria completed by the signal, before the budget
\* ran out.
CompletionSignalWitness ==
    /\ halted.by = "fallback"
    /\ ~halted.demoted
    /\ BucketOf(tasks, halted.task) = "completed"
    /\ FindTask(tasks, halted.task).status = "completed"
    /\ Len(FindTask(tasks, halted.task).successCriteria) = 0

\* C15: a prose reply with a failure signal and no completion outcome marks
\* the submission's task failed and leaves the loop: control is back at the
\* prompt, no completion request follows, the task is failed.
FailureSignalHalts ==
    [][\A reply \in Replies :
          ( /\ ReplyProse(reply)
            /\ reply.failure
            /\ currentTask # NoTask
            /\ ~verifyTaskCompletion(tasks, currentTask)
            /\ ~fallbackCompletes(reply, tasks, currentTask) )
          => /\ pc' = "prompt"
             /\ effect' # "request"
             /\ FindTask(tasks', currentTask).status = "failed"
      ]_vars

\* C16: a Patch whose write fails, or a Commit whose client fails, leaves the
\* submission and the input loop running.
CollaboratorFailureSurvives ==
    ~(pc = "crashed" /\ effect \in {"write", "commit"})

\* C17: a reply that carries one of the six action tags for the submission's
\* task is not treated as an unrecognized tag, and a read action is executed
\* as a file read.
EveryTagExecutes ==
    [][\A reply \in Replies :
          ( /\ pc = "request"
            /\ currentTask # NoTask
            /\ parse(reply).action \in
                   {"run", "read", "patch", "commit", "define_criteria", "verify"}
            /\ \/ ReplyUnknown(reply)
               \/ ReplyRun(reply)
               \/ ReplyPatch(reply)
               \/ ReplyCommit(reply)
               \/ ReplyDefineCriteria(reply)
               \/ ReplyVerify(reply) )
          => /\ halted'.by # "unknown"
             /\ parse(reply).action = "read" => effect' = "read"
      ]_vars

\* C18: a verify action calls exec once for its command, whether or not the
\* command exits non-zero.
VerifyRunsOnce ==
    /\ (pc = "exec" /\ parsed.action = "verify") => execCalls = 1
    /\ result.action = "verify" => result.calls = 1 /\ result.delays = <<>>

\* C19: whenever a completion request is out and whenever control is back at
\* the prompt, the context has at most MAX_MESSAGES messages and is within
\* MAX_TOKENS unless it is down to two messages.
ContextWithinCeilings ==
    pc \in {"request", "prompt"} =>
        /\ Len(messages) <= MAX_MESSAGES
        /\ \/ totalTokens(messages) <= MAX_TOKENS
           \/ Len(messages) <= 2

\* C20: a task that the loop left completed is completed, in the completed
\* bucket, when the submission has returned; the budget demotes a task only
\* when the loop ended on the budget.
CompletedSurvivesReturn ==
    /\ (halted.left = "completed" /\ pc = "prompt") =>
          /\ BucketOf(tasks, halted.task) = "completed"
          /\ FindTask(tasks, halted.task).status = "completed"
    /\ halted.demoted => halted.by = "budget"

\* C21: a step that runs compressContext leaves the system message followed by
\* the newest of the other messages, in their order: what is kept of the
\* context the step started from sits, d places down, where it was, d being
\* the number of messages discarded; no second system message is kept.
SuffixKept ==
    [][compressed'.context # <<>> =>
          LET kept == compressed'.context
              d == compressed'.dropped
          IN /\ d >= 0
             /\ Len(kept) + d > Len(messages)
             /\ kept[1].role = "system"
             /\ \A i \in 2..Len(kept) :
                   /\ kept[i].role # "system"
                   /\ i + d <= Len(messages) => kept[i] = messages[i + d]
      ]_vars

\* A compression under the token ceiling: it discarded a long message and
\* kept a short one that came after it.
SuffixKeptWitness ==
    /\ compressed.dropped > 0
    /\ Len(compressed.context) \in 3..(MAX_MESSAGES - 1)
    /\ \E i \in 2..Len(compressed.context) :
          compressed.context[i].content.tokens = ShortTokens

\* C22: while a completion request is out, the system message shows the
\* ledger as it is: the description of the last active task, the number of
\* pending tasks and the number of completed ones.
PromptReflectsLedger ==
    pc = "request" =>
        LET shown == messages[1].content IN
        /\ shown.activeTask =
              IF Len(tasks.active) > 0
              THEN tasks.active[Len(tasks.active)].description
              ELSE "None"
        /\ shown.pending = Len(tasks.pending)
        /\ shown.completed = Len(tasks.completed)

\* C23: when runCommand resolves for a verify action and the pass check fails
\* (the command failed, or its output holds "error" or "not found"), no
\* criterion changes, the loop leaves every task's status as it was, one
\* assistant message is appended, and the next step follows if the budget has
\* one.
VerifyFailureRecorded ==
    [][\A outcome \in ShortOutcomes :
          ( /\ pc = "exec"
            /\ parsed.action = "verify"
            /\ ExecCallback(outcome)
            /\ pc' # "exec"
            /\ (outcome.err \/ outcome.error \/ outcome.notFound) )
          => /\ \A id \in live :
                   /\ BucketOf(tasks', id) # Null
                   /\ FindTask(tasks', id).successCriteria
                         = FindTask(tasks, id).successCriteria
                   /\ id # currentTask =>
                         /\ FindTask(tasks', id) = FindTask(tasks, id)
                         /\ BucketOf(tasks', id) = BucketOf(tasks, id)
             /\ StatusLeft(pc', halted', tasks', currentTask)
                   = FindTask(tasks, currentTask).status
             /\ pc' = "request" => tasks' = tasks
             /\ Len(compressed'.context) + compressed'.dropped = Len(messages) + 1
             /\ compressed'.context[Len(compressed'.context)].role = "assistant"
             /\ IF steps < maxSteps
                THEN pc' = "request" /\ effect' = "request"
                ELSE pc' = "prompt" /\ halted'.by = "budget"
      ]_vars

\* A failed verification of a task that has one criterion verified already,
\* with the next request out.
VerifyFailureWitness ==
    /\ pc = "request"
    /\ result.action = "verify"
    /\ ~result.success
    /\ currentTask # NoTask
    /\ \E k \in 1..Len(FindTask(tasks, currentTask).successCriteria) :
          FindTask(tasks, currentTask).successCriteria[k].verified

\* The criteria a define_criteria record lists, as addSuccessCriterion stores
\* them.
Unverified(criteria) ==
    [k \in 1..Len(criteria) |-> [criterion |-> criteria[k], verified |-> FALSE]]

\* The replies that name a task.
CriteriaReplies ==
    { reply \in Replies : parse(reply).action \in {"define_criteria", "verify"} }

\* C24: a define_criteria reply whose taskId is the submission's task appends
\* the listed criteria, in order and unverified, to that task and changes no
\* other task; a define_criteria or verify reply with another taskId changes
\* no task's criteria, leaves every status as it was and starts no command.
CriteriaFrame ==
    [][\A reply \in CriteriaReplies :
          LET record == parse(reply)
              mine == currentTask # NoTask /\ record.taskId = currentTask
              others == live \ {currentTask}
              untouched(ids) ==
                  \A id \in ids :
                      /\ BucketOf(tasks', id) = BucketOf(tasks, id)
                      /\ FindTask(tasks', id) = FindTask(tasks, id)
          IN IF pc # "request" THEN TRUE
             ELSE IF mine
             THEN (record.action = "define_criteria" /\ ReplyDefineCriteria(reply)) =>
                   /\ FindTask(tasks', currentTask).successCriteria
                         = FindTask(tasks, currentTask).successCriteria
                             \o Unverified(record.criteria)
                   /\ untouched(others)
             ELSE ( \/ record.action = "define_criteria" /\ ReplyDefineCriteria(reply)
                    \/ record.action = "verify" /\ ReplyVerify(reply) ) =>
                   /\ untouched(others)
                   /\ currentTask # NoTask =>
                         /\ FindTask(tasks', currentTask).successCriteria
                               = FindTask(tasks, currentTask).successCriteria
                         /\ StatusLeft(pc', halted', tasks', currentTask)
                               = FindTask(tasks, currentTask).status
                   /\ pc' # "exec"
                   /\ effect' # "exec"
                   /\ execCalls' = 0
      ]_vars

\* Criteria defined for the second task of a run while the first one, which
\* has none, is in the ledger.
CriteriaFrameWitness ==
    /\ pc = "request"
    /\ currentTask = MaxTasks
    /\ Len(FindTask(tasks, currentTask).successCriteria) = MaxCriteria
    /\ \E id \in live \ {currentTask} :
          Len(FindTask(tasks, id).successCriteria) = 0

\* The replies whose record lacks the field its action hands on.
IncompleteReplies == { reply \in Replies : parse(reply).missing }

\* C25: a reply whose record lacks a field its action needs is handled as
\* prose: no confirmation is asked, no collaborator is called, nothing throws.
MissingFieldIsNoAction ==
    [][\A reply \in IncompleteReplies :
          (pc = "request" /\ (ReplyRun(reply) \/ ReplyPatch(reply)))
          => /\ pc' \in {"request", "prompt"}
             /\ effect' \in {"request", "none"}
      ]_vars

\* C26: for a run action, a callback of exec without error reports success and
\* ends the calls; a callback with an error brings the next call while a retry
\* is left, and reports failure only after the last one; nothing is reported
\* while calls are still to come, and the report counts every call made.
OneResultPerRun ==
    [][\A outcome \in ShortOutcomes :
          (pc = "exec" /\ parsed.action = "run" /\ ExecCallback(outcome)) =>
              /\ result = NoResult
              /\ execCalls = retryCount + 1
              /\ IF ~outcome.err \/ retryCount = maxRetries
                 THEN /\ pc' # "exec"
                      /\ result'.action = "run"
                      /\ result'.success = ~outcome.err
                      /\ result'.calls = execCalls
                      /\ execCalls' = 0
                 ELSE /\ pc' = "exec"
                      /\ result' = NoResult
                      /\ execCalls' = execCalls + 1
      ]_vars

\* A run that succeeded at its third execution.
OneResultWitness ==
    /\ result.action = "run"
    /\ result.success
    /\ result.calls = 3

\* C27: a task whose status is "completed" or "failed" keeps that status and
\* its bucket in every later step.
FinishedIsFinal ==
    [][\A taskId \in 1..MaxTasks :
          (/\ BucketOf(tasks, taskId) # Null
           /\ FindTask(tasks, taskId).status \in {"completed", "failed"})
          => /\ BucketOf(tasks', taskId) = BucketOf(tasks, taskId)
             /\ FindTask(tasks', taskId).status = FindTask(tasks, taskId).status
      ]_vars

\* C28: the active bucket never holds more than one task.
OneActiveTask == Len(tasks.active) <= 1

====
